---- MODULE Spec2Model ----
(***************************************************************************)
(* Model of kudu/tools/tool_action_local_replica.cc: the "local_replica"   *)
(* mode of the kudu command line tool (print_replica_uuids,                *)
(* rewrite_raft_config, copy_from_remote, list, dump block_ids / meta /    *)
(* rowset / wals).                                                         *)
(*                                                                         *)
(* Strings are sequences of one-character strings, so that find(":") and   *)
(* substr() are computed the way the code computes them.                   *)
(***************************************************************************)
EXTENDS Integers, Sequences, FiniteSets, TLC

(***************************************************************************)
(* Bounds of the model.                                                    *)
(***************************************************************************)
\* longest enumerated peer string handed to ParsePeerString
MaxLen == 4
\* most peer arguments of one rewrite_raft_config invocation
MaxPeers == 2
\* values the clock (Env::NowMicros) can return
MaxTime == 2
\* rewrite_raft_config / copy_from_remote invocations in one behaviour
MaxRuns == 2
\* most rowsets of the tablet
MaxRowSets == 2
\* most data blocks (column + UNDO + REDO) of the tablet
MaxBlocks == 3
\* most rows of the base data of the rowset whose delta block is dumped
MaxRows == 250

(***************************************************************************)
(* Program constants.                                                      *)
(***************************************************************************)
kRowsPerBlock == 100
\* largest value HostPort::ParseString accepts for a port
kMaxPort == 65535

(***************************************************************************)
(* Strings.                                                                *)
(***************************************************************************)
Digits == {"0", "1", "2", "3", "4", "5", "6", "7", "8", "9"}

DigitVal(c) ==
  CASE c = "0" -> 0 [] c = "1" -> 1 [] c = "2" -> 2 [] c = "3" -> 3
    [] c = "4" -> 4 [] c = "5" -> 5 [] c = "6" -> 6 [] c = "7" -> 7
    [] c = "8" -> 8 [] c = "9" -> 9

\* std::string::find(":"): index (1-based) of the first ':', 0 for npos
RECURSIVE FindFrom(_, _)
FindFrom(s, i) ==
  IF i > Len(s) THEN 0
  ELSE IF s[i] = ":" THEN i
  ELSE FindFrom(s, i + 1)

Find(s) == FindFrom(s, 1)

\* std::string::substr(pos) with a 0-based pos = i, as a 1-based sequence
SubstrFrom(s, i) == SubSeq(s, i + 1, Len(s))

\* std::string::substr(0, n)
SubstrTo(s, n) == SubSeq(s, 1, n)

\* SimpleAtoi to uint32: [ok, v]; fails on the empty string and on a
\* non-digit; more than 9 digits are out of the range the model computes
RECURSIVE AtoiFrom(_, _, _)
AtoiFrom(s, i, acc) ==
  IF i > Len(s) THEN acc
  ELSE AtoiFrom(s, i + 1, acc * 10 + DigitVal(s[i]))

SimpleAtoi(s) ==
  IF Len(s) = 0 \/ Len(s) > 9 \/ \E i \in 1..Len(s) : s[i] \notin Digits
  THEN [ok |-> FALSE, v |-> 0]
  ELSE [ok |-> TRUE, v |-> AtoiFrom(s, 1, 0)]

(***************************************************************************)
(* Status codes and HostPort.                                              *)
(***************************************************************************)
OK == "OK"
InvalidArgument == "InvalidArgument"
NotFound == "NotFound"
AlreadyPresent == "AlreadyPresent"
IOError == "IOError"
Corruption == "Corruption"
NetworkError == "NetworkError"
\* the process died (failed DCHECK, kill, power loss): no Status is returned
Aborted == "Aborted"
NoStatus == "none"

\* HostPort(): host "" and port 0
DefaultHostPort == [host |-> <<>>, port |-> 0]

\* HostPort::ParseString(str, default_port): the text up to the first ':'
\* is the host; without a ':' the port is default_port, otherwise the rest
\* must be a number of at most kMaxPort
HostPortParseString(str, default_port) ==
  LET c == Find(str) IN
  IF c = 0
  THEN [s |-> OK, hp |-> [host |-> str, port |-> default_port]]
  ELSE LET a == SimpleAtoi(SubstrFrom(str, c)) IN
       IF ~a.ok \/ a.v > kMaxPort
       THEN [s |-> InvalidArgument, hp |-> DefaultHostPort]
       ELSE [s |-> OK, hp |-> [host |-> SubstrTo(str, c - 1), port |-> a.v]]

\* ParseHostPortString(hostport_str, hostport): [s, hostport], hostport
\* being the value of the output parameter after the call
ParseHostPortString(hostport_str, hostport) ==
  LET r == HostPortParseString(hostport_str, 0) IN
  IF r.s # OK THEN [s |-> r.s, hostport |-> hostport]
  ELSE IF r.hp.port = 0 THEN [s |-> InvalidArgument, hostport |-> hostport]
  ELSE [s |-> OK, hostport |-> r.hp]

\* a slip: the identifier is assigned before the address is parsed
ParsePeerStringUuidFirst(peer_str, uuid, hostport) ==
  LET first_colon_idx == Find(peer_str) IN
  IF first_colon_idx = 0
  THEN [s |-> InvalidArgument, uuid |-> uuid, hostport |-> hostport]
  ELSE LET r == ParseHostPortString(SubstrFrom(peer_str, first_colon_idx), hostport) IN
       [s |-> r.s, uuid |-> SubstrTo(peer_str, first_colon_idx - 1),
        hostport |-> r.hostport]

\* ParsePeerString(peer_str, uuid, hostport): [s, uuid, hostport], the
\* last two being the values of the output parameters after the call
ParsePeerString(peer_str, uuid, hostport) ==
  LET first_colon_idx == Find(peer_str) IN
  IF first_colon_idx = 0
  THEN [s |-> InvalidArgument, uuid |-> uuid, hostport |-> hostport]
  ELSE LET hostport_str == SubstrFrom(peer_str, first_colon_idx)
           r == ParseHostPortString(hostport_str, hostport) IN
       IF r.s # OK
       THEN [s |-> r.s, uuid |-> uuid, hostport |-> r.hostport]
       ELSE [s |-> OK, uuid |-> SubstrTo(peer_str, first_colon_idx - 1),
             hostport |-> r.hostport]

(***************************************************************************)
(* State.                                                                  *)
(***************************************************************************)
VARIABLES
  \* persisted state (the storage root)
  cmeta_file,       \* content of the primary consensus-metadata file
  backups,          \* content of <cmeta>.pre_rewrite.<t>, per timestamp t
  tablet,           \* the tablet's superblock: its rowsets and their blocks
  copy_data,        \* what copy_from_remote has persisted of the copied replica
  \* the running tool process
  cmd,              \* the action being run
  pc,               \* its position
  status,           \* the Status it returned
  fs_opts,          \* how its FsManager was opened
  args,             \* context.variadic_args
  peers,            \* the parsed peers
  backup_filename,  \* the timestamp embedded in backup_filename
  cmeta,            \* the loaded ConsensusMetadata
  flags,            \* FLAGS_metadata_only, FLAGS_nrows, FLAGS_rowset_index, FLAGS_verbose
  out,              \* what the action dumped, in order
  \* the call site of ParsePeerString
  p_str, p_uuid, p_hostport,
  \* history of the running invocation
  pre_cmeta,        \* the primary file when the invocation started
  pre_backups,      \* the backup files when the invocation started
  safe_backups,     \* the complete backups when the primary was first written
  steps,            \* the steps the invocation executed, in order
  runs              \* number of mutating invocations so far

disk == <<cmeta_file, backups, tablet, copy_data>>
proc == <<cmd, pc, status, fs_opts, args, peers, backup_filename, cmeta, flags, out>>
call == <<p_str, p_uuid, p_hostport>>
hist == <<pre_cmeta, pre_backups, safe_backups, steps, runs>>
vars == <<disk, proc, call, hist>>

(***************************************************************************)
(* Files.                                                                  *)
(***************************************************************************)
NoFile == [kind |-> "none"]
\* a primary file whose overwrite did not complete
Torn == [kind |-> "torn"]
\* a copy of content c that stopped before its end
Truncated(c) == [kind |-> "truncated", of |-> c]

VOTER == "VOTER"
NON_VOTER == "NON_VOTER"

\* the consensus metadata of the replica before any rewrite
CMeta0 ==
  [kind |-> "cmeta",
   current_term |-> 3,
   committed_config |->
     [opid_index |-> 7,
      peers |-> << [permanent_uuid |-> <<"z">>, member_type |-> NON_VOTER,
                    last_known_addr |-> [host |-> <<"o">>, port |-> 7050]] >>]]

NoCMeta == [kind |-> "none"]

Timestamps == 1..MaxTime

NoBackups == [t \in Timestamps |-> NoFile]

\* no superblock for the tablet on this storage root
NoTablet == [present |-> FALSE, rowsets |-> <<>>]

\* ConsensusMetadata::Load: NotFound without a file, Corruption when the
\* file does not decode
ConsensusMetadataLoad(file) ==
  IF file = NoFile THEN [s |-> NotFound, cmeta |-> NoCMeta]
  ELSE IF file = Torn THEN [s |-> Corruption, cmeta |-> NoCMeta]
  ELSE [s |-> OK, cmeta |-> file]

(***************************************************************************)
(* Inputs.                                                                 *)
(***************************************************************************)
ParseChars == {"a", ":", "0", "1", "9"}

\* the scenario strings of the documentation
ScenarioPeer == <<"a","b","c","1","2","3",":","n","o","d","e","1",":","9","0","1","0">>
ScenarioPeerZero == <<"a","b","c","1","2","3",":","n","o","d","e","1",":","0">>
ScenarioPeerBigPort == <<"a",":","n",":","7","0","0","0","0">>

PeerStrings ==
  UNION {[1..n -> ParseChars] : n \in 0..MaxLen}
    \cup {ScenarioPeer, ScenarioPeerZero, ScenarioPeerBigPort}

\* values of the output parameters before a call
UnsetUuid == <<"?">>
UnsetHostPort == [host |-> <<"?">>, port |-> 0]

NoFlags == [metadata_only |-> FALSE, nrows |-> 0, rowset_index |-> -1, verbose |-> FALSE]

(***************************************************************************)
(* The process at rest.                                                    *)
(***************************************************************************)
ProcIdle ==
  /\ cmd = "none" /\ pc = "idle" /\ status = NoStatus /\ fs_opts = "closed"
  /\ args = <<>> /\ peers = <<>> /\ backup_filename = 0 /\ cmeta = NoCMeta
  /\ flags = NoFlags /\ out = <<>>

CallIdle == p_str = <<>> /\ p_uuid = UnsetUuid /\ p_hostport = UnsetHostPort

HistIdle(r) ==
  /\ pre_cmeta = NoFile /\ pre_backups = NoBackups /\ safe_backups = {}
  /\ steps = <<>> /\ runs = r

(***************************************************************************)
(* ParsePeerString on its own: every bounded peer string.                  *)
(***************************************************************************)
InitParse ==
  /\ cmeta_file = CMeta0 /\ backups = NoBackups /\ tablet = NoTablet /\ copy_data = "none"
  /\ ProcIdle /\ HistIdle(0)
  /\ p_str \in PeerStrings /\ p_uuid = UnsetUuid /\ p_hostport = UnsetHostPort

CallParsePeerString ==
  /\ pc = "idle"
  /\ LET r == ParsePeerString(p_str, p_uuid, p_hostport) IN
       /\ status' = r.s
       /\ p_uuid' = r.uuid
       /\ p_hostport' = r.hostport
  /\ cmd' = "parse_peer"
  /\ pc' = "done"
  /\ UNCHANGED <<disk, hist, p_str, fs_opts, args, peers, backup_filename, cmeta, flags, out>>

NextParse == CallParsePeerString

SpecParse == InitParse /\ [][NextParse]_vars

(***************************************************************************)
(* rewrite_raft_config.                                                    *)
(***************************************************************************)
PeerA == <<"a", ":", "h", ":", "1">>
PeerB == <<"b", ":", "g", ":", "2">>
PeerNoDelimiter == <<"a", "h", "1">>
PeerPortZero == <<"a", ":", "h", ":", "0">>
PeerBadAddress == <<"a", ":", "h", ":", "x">>

PeerArgs == {PeerA, PeerB, PeerNoDelimiter, PeerPortZero, PeerBadAddress}

ArgLists == UNION {[1..n -> PeerArgs] : n \in 0..MaxPeers}

\* a slip: a peer that fails to parse is skipped instead of failing the run
RECURSIVE ParsePeerArgsSkipBad(_, _, _)
ParsePeerArgsSkipBad(variadic_args, i, acc) ==
  IF i > Len(variadic_args) THEN [s |-> OK, peers |-> acc]
  ELSE LET r == ParsePeerString(variadic_args[i], <<>>, DefaultHostPort) IN
       IF r.s # OK THEN ParsePeerArgsSkipBad(variadic_args, i + 1, acc)
       ELSE ParsePeerArgsSkipBad(variadic_args, i + 1,
              Append(acc, [uuid |-> r.uuid, hostport |-> r.hostport]))

\* the loop over context.variadic_args: [s, peers]
RECURSIVE ParsePeerArgs(_, _, _)
ParsePeerArgs(variadic_args, i, acc) ==
  IF i > Len(variadic_args) THEN [s |-> OK, peers |-> acc]
  ELSE LET r == ParsePeerString(variadic_args[i], <<>>, DefaultHostPort) IN
       IF r.s # OK THEN [s |-> r.s, peers |-> acc]
       ELSE ParsePeerArgs(variadic_args, i + 1,
              Append(acc, [uuid |-> r.uuid, hostport |-> r.hostport]))

\* DCHECK(cond): a debug build aborts when cond is false, a release build
\* compiles the check out
DCHECK(cond) == IF cond THEN {"pass"} ELSE {"abort", "pass"}

\* FsManagerOpts(): read_only is false unless set
FsManagerOptsDefault == "read_write"

\* a slip: an existing backup is truncated and rewritten
BackupOptsTruncate == [mode |-> "CREATE_IF_NON_EXISTING_TRUNCATE", sync_on_close |-> TRUE]

\* WritableFileOptions of the backup copy
BackupOpts == [mode |-> "CREATE_NON_EXISTING", sync_on_close |-> TRUE]

\* env_util::CopyFile up to the creation of the destination: the source is
\* opened first, then the destination is created under opts.mode
CopyFileOpen(src, dst, opts) ==
  IF src = NoFile THEN [s |-> NotFound, dst |-> dst]
  ELSE IF dst # NoFile /\ opts.mode = "CREATE_NON_EXISTING"
  THEN [s |-> AlreadyPresent, dst |-> dst]
  ELSE [s |-> OK, dst |-> Truncated(src)]

\* HostPortToPB
HostPortToPB(hp) == [s |-> OK, pb |-> [host |-> hp.host, port |-> hp.port]]

\* a slip: the new peers are added to the old ones
NewConfigKeepPeers(current_config, ps) ==
  [current_config EXCEPT !.peers = current_config.peers \o
     [i \in 1..Len(ps) |->
        [permanent_uuid |-> ps[i].uuid, member_type |-> VOTER,
         last_known_addr |-> HostPortToPB(ps[i].hostport).pb]]]

\* new_config: current_config with its peers cleared and one VOTER added
\* per parsed peer
NewConfig(current_config, ps) ==
  [current_config EXCEPT !.peers =
     [i \in 1..Len(ps) |->
        [permanent_uuid |-> ps[i].uuid, member_type |-> VOTER,
         last_known_addr |-> HostPortToPB(ps[i].hostport).pb]]]

\* a slip: the status of the backup copy is not checked
AfterCopyFileUnchecked(s) == "load"

\* RETURN_NOT_OK(env_util::CopyFile(...))
AfterCopyFile(s) == IF s = OK THEN "load" ELSE "done"

\* lines 186-201: the peer arguments are parsed
RewriteRaftConfig_Parse(variadic_args) ==
  /\ pc = "idle"
  /\ runs < MaxRuns
  /\ LET r == ParsePeerArgs(variadic_args, 1, <<>>) IN
       \/ /\ r.s # OK
          /\ status' = r.s /\ pc' = "done" /\ peers' = <<>>
       \/ /\ r.s = OK
          /\ \E d \in DCHECK(r.peers # <<>>) :
               IF d = "abort"
               THEN status' = Aborted /\ pc' = "done" /\ peers' = <<>>
               ELSE status' = NoStatus /\ pc' = "open_fs" /\ peers' = r.peers
  /\ cmd' = "rewrite_raft_config"
  /\ args' = variadic_args
  /\ pre_cmeta' = cmeta_file /\ pre_backups' = backups /\ safe_backups' = {}
  /\ steps' = <<"parse">>
  /\ runs' = runs + 1
  /\ UNCHANGED <<disk, call, fs_opts, backup_filename, cmeta, flags, out>>

\* lines 204-209: the storage root is opened, the backup path is computed
RewriteRaftConfig_FsOpen ==
  /\ cmd = "rewrite_raft_config" /\ pc = "open_fs"
  /\ \/ /\ status' = IOError /\ pc' = "done"
        /\ UNCHANGED <<fs_opts, backup_filename>>
     \/ \E now \in Timestamps :
          /\ fs_opts' = FsManagerOptsDefault
          /\ backup_filename' = now
          /\ pc' = "copy"
          /\ UNCHANGED status
  /\ steps' = Append(steps, "open_fs")
  /\ UNCHANGED <<disk, call, cmd, args, peers, cmeta, flags, out,
                 pre_cmeta, pre_backups, safe_backups, runs>>

\* line 213: CopyFile opens the source and creates the destination
RewriteRaftConfig_CopyFile ==
  /\ cmd = "rewrite_raft_config" /\ pc = "copy"
  /\ LET r == CopyFileOpen(cmeta_file, backups[backup_filename], BackupOpts) IN
       /\ backups' = [backups EXCEPT ![backup_filename] = r.dst]
       /\ IF r.s = OK
          THEN pc' = "copying" /\ UNCHANGED status
          ELSE pc' = AfterCopyFile(r.s) /\ status' = r.s
  /\ steps' = Append(steps, "copy")
  /\ UNCHANGED <<cmeta_file, tablet, copy_data, call, cmd, fs_opts, args, peers,
                 backup_filename, cmeta, flags, out,
                 pre_cmeta, pre_backups, safe_backups, runs>>

\* line 213-215: CopyFile writes the destination to its end, or fails
RewriteRaftConfig_CopyFileWrite ==
  /\ cmd = "rewrite_raft_config" /\ pc = "copying"
  /\ \/ /\ backups' = [backups EXCEPT ![backup_filename] = cmeta_file]
        /\ pc' = AfterCopyFile(OK)
        /\ UNCHANGED status
     \/ /\ pc' = AfterCopyFile(IOError)
        /\ status' = IOError
        /\ UNCHANGED backups
  /\ UNCHANGED <<cmeta_file, tablet, copy_data, call, cmd, fs_opts, args, peers,
                 backup_filename, cmeta, flags, out, hist>>

\* lines 218-220: the consensus metadata is loaded
RewriteRaftConfig_Load ==
  /\ cmd = "rewrite_raft_config" /\ pc = "load"
  /\ LET r == ConsensusMetadataLoad(cmeta_file) IN
       IF r.s # OK
       THEN status' = r.s /\ pc' = "done" /\ UNCHANGED cmeta
       ELSE cmeta' = r.cmeta /\ pc' = "stage" /\ UNCHANGED status
  /\ steps' = Append(steps, "load")
  /\ UNCHANGED <<disk, call, cmd, fs_opts, args, peers, backup_filename, flags, out,
                 pre_cmeta, pre_backups, safe_backups, runs>>

\* a slip: setting the committed configuration also writes it to the file
RewriteRaftConfig_StageWriteThrough ==
  /\ cmd = "rewrite_raft_config" /\ pc = "stage"
  /\ cmeta' = [cmeta EXCEPT !.committed_config = NewConfig(cmeta.committed_config, peers)]
  /\ cmeta_file' = cmeta'
  /\ pc' = "flush"
  /\ steps' = Append(steps, "stage")
  /\ UNCHANGED <<backups, tablet, copy_data, call, cmd, status, fs_opts, args, peers,
                 backup_filename, flags, out, pre_cmeta, pre_backups, safe_backups, runs>>

\* lines 221-233: the new configuration is built and set
RewriteRaftConfig_Stage ==
  /\ cmd = "rewrite_raft_config" /\ pc = "stage"
  /\ cmeta' = [cmeta EXCEPT !.committed_config = NewConfig(cmeta.committed_config, peers)]
  /\ pc' = "flush"
  /\ steps' = Append(steps, "stage")
  /\ UNCHANGED <<disk, call, cmd, status, fs_opts, args, peers, backup_filename, flags, out,
                 pre_cmeta, pre_backups, safe_backups, runs>>

\* line 234: Flush opens the primary file for overwriting, or fails to
RewriteRaftConfig_Flush ==
  /\ cmd = "rewrite_raft_config" /\ pc = "flush"
  /\ \/ /\ status' = IOError /\ pc' = "done"
        /\ steps' = Append(steps, "flush")
        /\ UNCHANGED <<cmeta_file, safe_backups>>
     \/ /\ cmeta_file' = Torn
        /\ safe_backups' = {t \in Timestamps : backups[t] = pre_cmeta}
        /\ pc' = "flushing"
        /\ steps' = steps \o <<"flush", "write">>
        /\ UNCHANGED status
  /\ UNCHANGED <<backups, tablet, copy_data, call, cmd, fs_opts, args, peers,
                 backup_filename, cmeta, flags, out, pre_cmeta, pre_backups, runs>>

\* line 234: Flush writes the file to its end and syncs it, or fails
RewriteRaftConfig_FlushWrite ==
  /\ cmd = "rewrite_raft_config" /\ pc = "flushing"
  /\ \/ /\ cmeta_file' = cmeta
        /\ status' = OK
     \/ /\ status' = IOError
        /\ UNCHANGED cmeta_file
  /\ pc' = "done"
  /\ UNCHANGED <<backups, tablet, copy_data, call, cmd, fs_opts, args, peers,
                 backup_filename, cmeta, flags, out, hist>>

\* the process dies between two steps of rewrite_raft_config
Crash ==
  /\ cmd = "rewrite_raft_config"
  /\ pc \in {"open_fs", "copy", "copying", "load", "stage", "flush", "flushing"}
  /\ status' = Aborted
  /\ pc' = "done"
  /\ UNCHANGED <<disk, call, cmd, fs_opts, args, peers, backup_filename, cmeta, flags, out, hist>>

\* the process ends
Exit ==
  /\ pc = "done"
  /\ cmd' = "none" /\ pc' = "idle" /\ status' = NoStatus /\ fs_opts' = "closed"
  /\ args' = <<>> /\ peers' = <<>> /\ backup_filename' = 0 /\ cmeta' = NoCMeta
  /\ flags' = NoFlags /\ out' = <<>>
  /\ p_str' = <<>> /\ p_uuid' = UnsetUuid /\ p_hostport' = UnsetHostPort
  /\ pre_cmeta' = NoFile /\ pre_backups' = NoBackups /\ safe_backups' = {}
  /\ steps' = <<>>
  /\ UNCHANGED <<disk, runs>>

InitRewrite ==
  /\ cmeta_file \in {CMeta0, NoFile}
  /\ backups = NoBackups /\ tablet = NoTablet /\ copy_data = "none"
  /\ ProcIdle /\ CallIdle /\ HistIdle(0)

NextRewrite ==
  \/ \E variadic_args \in ArgLists : RewriteRaftConfig_Parse(variadic_args)
  \/ RewriteRaftConfig_FsOpen
  \/ RewriteRaftConfig_CopyFile
  \/ RewriteRaftConfig_CopyFileWrite
  \/ RewriteRaftConfig_Load
  \/ RewriteRaftConfig_Stage
  \/ RewriteRaftConfig_Flush
  \/ RewriteRaftConfig_FlushWrite
  \/ Crash
  \/ Exit

SpecRewrite == InitRewrite /\ [][NextRewrite]_vars

(***************************************************************************)
(* The read-only actions.                                                  *)
(***************************************************************************)
\* a slip: the storage root is opened for writing
FsInitOptsReadWrite == "read_write"

\* FsInit: fs_opts.read_only = true
FsInitOpts == "read_only"

REDO == "REDO"
UNDO == "UNDO"

\* what a column block holds: a readable cfile, nothing (the block cannot be
\* opened), or a cfile whose values do not decode
ColBlocks == {"good", "missing", "bad_data"}

\* what a delta block holds: a delta file with deltas, nothing, a delta
\* file for which NewDeltaIterator reports NotFound, or one for which it
\* reports another error
DeltaBlocks == {"good", "missing", "empty", "bad_iter"}

\* rows of a rowset's base data
RowCounts == {250}

Min(a, b) == IF a < b THEN a ELSE b

\* CFileSet::Iterator::PrepareBatch(&n): n shrinks to the rows that are left
CFileSetPrepareBatch(n, left) == Min(n, left)

\* the row positions that have a delta in a delta file with deltas
DeltaRows == {0, 99, 100, 119, 120, 249}

\* CFileSet::Iterator after Init: it stands at the first row
CFileSetIteratorInit == 0

\* CFileSet::Iterator::HasNext
CFileSetHasNext(rows, idx) == idx < rows

\* CFileSet::Iterator::FinishBatch: the iterator moves past the batch
CFileSetFinishBatch(idx, n) == idx + n

\* DeltaIterator::SeekToOrdinal
DeltaSeekToOrdinal(idx) == idx

\* DeltaIterator::PrepareBatch(n, PREPARE_FOR_COLLECT): the rows
\* lo <= r < hi are prepared and the iterator moves past them
DeltaPrepareBatch(idx, n) == [lo |-> idx, hi |-> idx + n, idx |-> idx + n]

\* DeltaIterator::FilterColumnIdsAndCollectDeltas: the deltas of the
\* prepared rows
CollectDeltas(prepared) == {r \in DeltaRows : prepared.lo <= r /\ r < prepared.hi}

\* Arena arena(32 * 1024, 128 * 1024): the deltas it holds, and how often
\* it has been reset
NewArena == [resets |-> 0, held |-> {}]

ArenaReset(arena) == [resets |-> arena.resets + 1, held |-> {}]

ArenaAllocate(arena, deltas) == [arena EXCEPT !.held = @ \cup deltas]

\* what one iteration of the while loop did: the row count asked for and
\* the one PrepareBatch settled on, the rows processed and the place of the
\* two iterators before the batch, the rows the delta iterator prepared,
\* the deltas collected and the arena after the batch
Batch(want, n, nrows, base_idx, delta_idx, prepared, collected, arena) ==
  [want |-> want, n |-> n, nrows |-> nrows, base_idx |-> base_idx,
   delta_idx |-> delta_idx, delta_n |-> prepared.hi - prepared.lo,
   collected |-> collected, arena |-> arena]

\* a slip: every batch asks for kRowsPerBlock rows, whatever FLAGS_nrows
RECURSIVE DeltaBatchesNoRowLimit(_, _, _, _, _, _, _)
DeltaBatchesNoRowLimit(rows, base_idx, delta_idx, arena, nrows, FLAGS_nrows, acc) ==
  IF ~CFileSetHasNext(rows, base_idx) THEN acc
  ELSE IF FLAGS_nrows > 0 /\ FLAGS_nrows - nrows = 0 THEN acc
  ELSE LET want == kRowsPerBlock
           reset == ArenaReset(arena)
           n == CFileSetPrepareBatch(want, rows - base_idx)
           prepared == DeltaPrepareBatch(delta_idx, n)
           collected == CollectDeltas(prepared)
           used == ArenaAllocate(reset, collected) IN
       DeltaBatchesNoRowLimit(rows, CFileSetFinishBatch(base_idx, n), prepared.idx, used,
                              nrows + n, FLAGS_nrows,
                              Append(acc, Batch(want, n, nrows, base_idx, delta_idx,
                                                prepared, collected, used)))

\* a slip: the delta iterator is prepared for the row count asked for, not
\* for the one the base iterator settled on
RECURSIVE DeltaBatchesDeltaFirst(_, _, _, _, _, _, _)
DeltaBatchesDeltaFirst(rows, base_idx, delta_idx, arena, nrows, FLAGS_nrows, acc) ==
  IF ~CFileSetHasNext(rows, base_idx) THEN acc
  ELSE IF FLAGS_nrows > 0 /\ FLAGS_nrows - nrows = 0 THEN acc
  ELSE LET want == IF FLAGS_nrows > 0
                   THEN Min(FLAGS_nrows - nrows, kRowsPerBlock)
                   ELSE kRowsPerBlock
           reset == ArenaReset(arena)
           n == CFileSetPrepareBatch(want, rows - base_idx)
           prepared == DeltaPrepareBatch(delta_idx, want)
           collected == CollectDeltas(prepared)
           used == ArenaAllocate(reset, collected) IN
       DeltaBatchesDeltaFirst(rows, CFileSetFinishBatch(base_idx, n), prepared.idx, used,
                              nrows + n, FLAGS_nrows,
                              Append(acc, Batch(want, n, nrows, base_idx, delta_idx,
                                                prepared, collected, used)))

\* the while loop of DumpDeltaCFileBlockInternal: its batches, given the
\* rows of the base data, the place of the two iterators, the arena and the
\* rows processed (nrows <= FLAGS_nrows when FLAGS_nrows > 0, so the
\* unsigned subtraction never wraps)
RECURSIVE DeltaBatches(_, _, _, _, _, _, _)
DeltaBatches(rows, base_idx, delta_idx, arena, nrows, FLAGS_nrows, acc) ==
  IF ~CFileSetHasNext(rows, base_idx) THEN acc
  ELSE IF FLAGS_nrows > 0 /\ FLAGS_nrows - nrows = 0 THEN acc
  ELSE LET want == IF FLAGS_nrows > 0
                   THEN Min(FLAGS_nrows - nrows, kRowsPerBlock)
                   ELSE kRowsPerBlock
           reset == ArenaReset(arena)
           n == CFileSetPrepareBatch(want, rows - base_idx)
           prepared == DeltaPrepareBatch(delta_idx, n)
           collected == CollectDeltas(prepared)
           used == ArenaAllocate(reset, collected) IN
       DeltaBatches(rows, CFileSetFinishBatch(base_idx, n), prepared.idx, used,
                    nrows + n, FLAGS_nrows,
                    Append(acc, Batch(want, n, nrows, base_idx, delta_idx,
                                      prepared, collected, used)))

\* what the dump of one block did
Event(kind, rowset, pos, s, opened, empty, batches) ==
  [kind |-> kind, rowset |-> rowset, pos |-> pos, s |-> s,
   opened |-> opened, empty |-> empty, batches |-> batches]

\* DumpCFileBlockInternal: [s, ev]
DumpCFileBlockInternal(block, rowset, pos, f) ==
  IF block = "missing"
  THEN [s |-> NotFound, ev |-> Event("col", rowset, pos, NotFound, FALSE, FALSE, <<>>)]
  ELSE IF ~f.verbose
  THEN [s |-> OK, ev |-> Event("col", rowset, pos, OK, TRUE, FALSE, <<>>)]
  ELSE IF block = "bad_data"
  THEN [s |-> Corruption, ev |-> Event("col", rowset, pos, Corruption, TRUE, FALSE, <<>>)]
  ELSE [s |-> OK, ev |-> Event("col", rowset, pos, OK, TRUE, FALSE, <<>>)]

\* a slip: NotFound from NewDeltaIterator is returned like any other error
DumpDeltaCFileBlockInternalNoEmpty(rs, block, delta_type, rowset, pos, f) ==
  LET kind == IF delta_type = UNDO THEN "undo" ELSE "redo" IN
  IF block = "missing"
  THEN [s |-> NotFound, ev |-> Event(kind, rowset, pos, NotFound, FALSE, FALSE, <<>>)]
  ELSE IF f.metadata_only
  THEN [s |-> OK, ev |-> Event(kind, rowset, pos, OK, TRUE, FALSE, <<>>)]
  ELSE IF block = "empty"
  THEN [s |-> NotFound, ev |-> Event(kind, rowset, pos, NotFound, TRUE, FALSE, <<>>)]
  ELSE IF block = "bad_iter"
  THEN [s |-> Corruption, ev |-> Event(kind, rowset, pos, Corruption, TRUE, FALSE, <<>>)]
  ELSE [s |-> OK,
        ev |-> Event(kind, rowset, pos, OK, TRUE, FALSE,
                     DeltaBatches(rs.rows, CFileSetIteratorInit, DeltaSeekToOrdinal(0),
                                  NewArena, 0, f.nrows, <<>>))]

\* DumpDeltaCFileBlockInternal: [s, ev]
DumpDeltaCFileBlockInternal(rs, block, delta_type, rowset, pos, f) ==
  LET kind == IF delta_type = UNDO THEN "undo" ELSE "redo" IN
  IF block = "missing"
  THEN [s |-> NotFound, ev |-> Event(kind, rowset, pos, NotFound, FALSE, FALSE, <<>>)]
  ELSE IF f.metadata_only
  THEN [s |-> OK, ev |-> Event(kind, rowset, pos, OK, TRUE, FALSE, <<>>)]
  ELSE IF block = "empty"
  THEN [s |-> OK, ev |-> Event(kind, rowset, pos, OK, TRUE, TRUE, <<>>)]
  ELSE IF block = "bad_iter"
  THEN [s |-> Corruption, ev |-> Event(kind, rowset, pos, Corruption, TRUE, FALSE, <<>>)]
  ELSE [s |-> OK,
        ev |-> Event(kind, rowset, pos, OK, TRUE, FALSE,
                     DeltaBatches(rs.rows, CFileSetIteratorInit, DeltaSeekToOrdinal(0),
                                  NewArena, 0, f.nrows, <<>>))]

\* the loop over the column blocks of DumpRowSetInternal: [s, out]
RECURSIVE DumpColumnBlocks(_, _, _, _, _)
DumpColumnBlocks(rs, rowset, i, f, acc) ==
  IF i > Len(rs.cols) THEN [s |-> OK, out |-> acc]
  ELSE IF f.metadata_only THEN DumpColumnBlocks(rs, rowset, i + 1, f, acc)
  ELSE LET r == DumpCFileBlockInternal(rs.cols[i], rowset, i, f) IN
       IF r.s # OK THEN [s |-> r.s, out |-> Append(acc, r.ev)]
       ELSE DumpColumnBlocks(rs, rowset, i + 1, f, Append(acc, r.ev))

\* a loop over the UNDO or the REDO blocks of DumpRowSetInternal: [s, out]
RECURSIVE DumpDeltaBlocks(_, _, _, _, _, _, _)
DumpDeltaBlocks(rs, blocks, delta_type, rowset, i, f, acc) ==
  IF i > Len(blocks) THEN [s |-> OK, out |-> acc]
  ELSE LET r == DumpDeltaCFileBlockInternal(rs, blocks[i], delta_type, rowset, i, f) IN
       IF r.s # OK THEN [s |-> r.s, out |-> Append(acc, r.ev)]
       ELSE DumpDeltaBlocks(rs, blocks, delta_type, rowset, i + 1, f, Append(acc, r.ev))

\* DumpRowSetInternal: [s, out], out continuing acc
DumpRowSetInternal(rs, rowset, f, acc) ==
  LET c == DumpColumnBlocks(rs, rowset, 1, f, acc) IN
  IF c.s # OK THEN c
  ELSE LET u == DumpDeltaBlocks(rs, rs.undos, UNDO, rowset, 1, f, c.out) IN
       IF u.s # OK THEN u
       ELSE DumpDeltaBlocks(rs, rs.redos, REDO, rowset, 1, f, u.out)

\* a slip: a rowset that fails to dump is skipped
RECURSIVE DumpAllRowSetsSkipFailed(_, _, _, _)
DumpAllRowSetsSkipFailed(rowsets, i, f, acc) ==
  IF i > Len(rowsets) THEN [s |-> OK, out |-> acc]
  ELSE DumpAllRowSetsSkipFailed(rowsets, i + 1, f,
                                DumpRowSetInternal(rowsets[i], i, f, acc).out)

\* the loop of DumpRowSet over all rowsets: [s, out]
RECURSIVE DumpAllRowSets(_, _, _, _)
DumpAllRowSets(rowsets, i, f, acc) ==
  IF i > Len(rowsets) THEN [s |-> OK, out |-> acc]
  ELSE LET r == DumpRowSetInternal(rowsets[i], i, f, acc) IN
       IF r.s # OK THEN r
       ELSE DumpAllRowSets(rowsets, i + 1, f, r.out)

\* a slip: FLAGS_rowset_index is compared with the position of the rowset
\* in the tablet, counted from 0, instead of with its id
RECURSIVE DumpRowSetByPosition(_, _, _)
DumpRowSetByPosition(rowsets, i, f) ==
  IF i > Len(rowsets) THEN [s |-> InvalidArgument, out |-> <<>>]
  ELSE IF i - 1 = f.rowset_index
  THEN DumpRowSetInternal(rowsets[i], i, f, <<>>)
  ELSE DumpRowSetByPosition(rowsets, i + 1, f)

\* the loop of DumpRowSet looking for FLAGS_rowset_index: [s, out]
RECURSIVE DumpRowSetByIndex(_, _, _)
DumpRowSetByIndex(rowsets, i, f) ==
  IF i > Len(rowsets) THEN [s |-> InvalidArgument, out |-> <<>>]
  ELSE IF rowsets[i].id = f.rowset_index
  THEN DumpRowSetInternal(rowsets[i], i, f, <<>>)
  ELSE DumpRowSetByIndex(rowsets, i + 1, f)

\* TabletMetadata::Load
TabletMetadataLoad(tab) == IF tab.present THEN OK ELSE NotFound

\* DumpRowSet once the storage root is open: [s, out]
DumpRowSetOpened(tab, f) ==
  IF TabletMetadataLoad(tab) # OK THEN [s |-> TabletMetadataLoad(tab), out |-> <<>>]
  ELSE IF tab.rowsets = <<>> THEN [s |-> OK, out |-> <<>>]
  ELSE IF f.rowset_index # -1 THEN DumpRowSetByIndex(tab.rowsets, 1, f)
  ELSE DumpAllRowSets(tab.rowsets, 1, f, <<>>)

\* a read-only action: FsInit fails, or the action runs on the opened root
ReadOnlyRun(name, f, r) ==
  /\ pc = "idle"
  /\ cmd' = name
  /\ flags' = f
  /\ pc' = "done"
  /\ \/ /\ status' = IOError /\ out' = <<>>
        /\ UNCHANGED fs_opts
     \/ /\ fs_opts' = FsInitOpts
        /\ status' = r.s /\ out' = r.out
  /\ UNCHANGED <<disk, call, hist, args, peers, backup_filename, cmeta>>

\* dump rowset
DumpRowSet(f) == ReadOnlyRun("dump_rowset", f, DumpRowSetOpened(tablet, f))

\* print_replica_uuids
PrintReplicaUuids ==
  LET l == ConsensusMetadataLoad(cmeta_file) IN
  ReadOnlyRun("print_replica_uuids", NoFlags,
    IF l.s # OK THEN [s |-> l.s, out |-> <<>>]
    ELSE [s |-> OK,
          out |-> [i \in 1..Len(l.cmeta.committed_config.peers) |->
                     l.cmeta.committed_config.peers[i].permanent_uuid]])

\* DumpTabletMeta: [s, out]
DumpTabletMeta(tab) ==
  IF TabletMetadataLoad(tab) # OK THEN [s |-> TabletMetadataLoad(tab), out |-> <<>>]
  ELSE [s |-> OK, out |-> <<"partition", "table", "schema", "superblock">>]

\* dump meta
DumpMeta == ReadOnlyRun("dump_meta", NoFlags, DumpTabletMeta(tablet))

\* list
ListLocalReplicas(f) ==
  ReadOnlyRun("list", f,
    IF ~tablet.present THEN [s |-> OK, out |-> <<>>]
    ELSE IF f.verbose
    THEN [s |-> DumpTabletMeta(tablet).s, out |-> <<"tablet">> \o DumpTabletMeta(tablet).out]
    ELSE [s |-> OK, out |-> <<"tablet">>])

\* ListBlocksInRowSet: the blocks of one rowset, none of them opened
ListBlocksInRowSet(rs, rowset) ==
  [i \in 1..Len(rs.cols) |-> <<"col", rowset, i>>] \o
  [i \in 1..Len(rs.undos) |-> <<"undo", rowset, i>>] \o
  [i \in 1..Len(rs.redos) |-> <<"redo", rowset, i>>]

RECURSIVE ListAllBlocks(_, _, _)
ListAllBlocks(rowsets, i, acc) ==
  IF i > Len(rowsets) THEN acc
  ELSE ListAllBlocks(rowsets, i + 1, acc \o ListBlocksInRowSet(rowsets[i], i))

\* dump block_ids
DumpBlockIdsForLocalReplica ==
  ReadOnlyRun("dump_block_ids", NoFlags,
    IF TabletMetadataLoad(tablet) # OK THEN [s |-> TabletMetadataLoad(tablet), out |-> <<>>]
    ELSE [s |-> OK, out |-> ListAllBlocks(tablet.rowsets, 1, <<>>)])

\* dump wals: the log segments are read and printed
DumpWals ==
  ReadOnlyRun("dump_wals", NoFlags,
    IF ~tablet.present THEN [s |-> NotFound, out |-> <<>>]
    ELSE [s |-> OK, out |-> <<"segments">>])

(***************************************************************************)
(* copy_from_remote.                                                       *)
(***************************************************************************)
SourceGood == <<"h", ":", "1">>
SourceNoPort == <<"h">>
Sources == {SourceGood, SourceNoPort}

\* TabletCopyClient: what Start, FetchAll and Finish leave on the storage
\* root when they succeed
TabletCopyStart == "started"
TabletCopyFetchAll == "fetched"
TabletCopyFinish == "finished"

\* copy_from_remote: the source is parsed, the storage root is opened with
\* FsManagerOpts(), then Start, FetchAll and Finish run, each of which can
\* fail
CopyFromRemote(source) ==
  /\ pc = "idle"
  /\ runs < MaxRuns
  /\ cmd' = "copy_from_remote"
  /\ pc' = "done"
  /\ LET p == ParseHostPortString(source, DefaultHostPort) IN
     \/ /\ p.s # OK
        /\ status' = p.s
        /\ UNCHANGED <<fs_opts, copy_data>>
     \/ /\ p.s = OK
        /\ status' = IOError
        /\ UNCHANGED <<fs_opts, copy_data>>
     \/ /\ p.s = OK
        /\ fs_opts' = FsManagerOptsDefault
        /\ \/ status' = NetworkError /\ UNCHANGED copy_data
           \/ status' = NetworkError /\ copy_data' = TabletCopyStart
           \/ status' = IOError /\ copy_data' = TabletCopyFetchAll
           \/ status' = OK /\ copy_data' = TabletCopyFinish
  /\ runs' = runs + 1
  /\ UNCHANGED <<cmeta_file, backups, tablet, call, args, peers, backup_filename, cmeta,
                 flags, out, pre_cmeta, pre_backups, safe_backups, steps>>

(***************************************************************************)
(* Tablets.                                                                *)
(***************************************************************************)
Seqs(S, n) == [1..n -> S]

\* the block counts <<columns, UNDO blocks, REDO blocks>> of one rowset
\* of at most b blocks, at least one of them a column block
RowSetShapes(b) ==
  {x \in (1..b) \X (0..b) \X (0..b) : x[1] + x[2] + x[3] <= b}

\* the block counts of at most n rowsets with at most b blocks in all
RECURSIVE TabletShapes(_, _)
TabletShapes(b, n) ==
  IF n = 0 \/ b = 0 THEN {<<>>}
  ELSE {<<>>} \cup
       UNION { {<<x>> \o rest : rest \in TabletShapes(b - (x[1] + x[2] + x[3]), n - 1)} :
               x \in RowSetShapes(b) }

\* the rowsets of one shape, whatever their blocks hold
RowSetsOfShape(x, id) ==
  {[id |-> id, cols |-> c, undos |-> u, redos |-> r, rows |-> n] :
     c \in Seqs(ColBlocks, x[1]), u \in Seqs(DeltaBlocks, x[2]),
     r \in Seqs(DeltaBlocks, x[3]), n \in RowCounts}

\* rowset ids are unique and ascending: the positions, or with a gap at 0
RECURSIVE RowSetSeqsOfShape(_, _)
RowSetSeqsOfShape(shape, first_id) ==
  IF shape = <<>> THEN {<<>>}
  ELSE {<<rs>> \o rest :
          rs \in RowSetsOfShape(Head(shape), first_id),
          rest \in RowSetSeqsOfShape(Tail(shape), first_id + 1)}

Tablets ==
  {NoTablet} \cup
  UNION { {[present |-> TRUE, rowsets |-> rss] :
             rss \in RowSetSeqsOfShape(shape, 0) \cup RowSetSeqsOfShape(shape, 1)} :
          shape \in TabletShapes(MaxBlocks, MaxRowSets) }

FlagSets ==
  [metadata_only : BOOLEAN, nrows : {0, 120},
   rowset_index : {-1} \cup (0..MaxRowSets), verbose : BOOLEAN]

InitDump ==
  /\ cmeta_file = CMeta0 /\ backups = NoBackups /\ copy_data = "none"
  /\ tablet \in Tablets
  /\ ProcIdle /\ CallIdle /\ HistIdle(0)

NextDump ==
  \/ \E f \in FlagSets : DumpRowSet(f)
  \/ Exit

SpecDump == InitDump /\ [][NextDump]_vars

(***************************************************************************)
(* dump rowset on one rowset with one column block and one REDO delta      *)
(* block with deltas: the batch loop, for every row count and row limit.   *)
(***************************************************************************)
BatchTablets ==
  {[present |-> TRUE,
    rowsets |-> << [id |-> 0, cols |-> <<"good">>, undos |-> <<>>,
                    redos |-> <<"good">>, rows |-> n] >>] : n \in 1..MaxRows}

\* FLAGS_nrows: negative, zero, below and above the rows of the rowset
BatchFlagSets == {[NoFlags EXCEPT !.nrows = l] : l \in -1..(MaxRows + 1)}

InitBatch ==
  /\ cmeta_file = CMeta0 /\ backups = NoBackups /\ copy_data = "none"
  /\ tablet \in BatchTablets
  /\ ProcIdle /\ CallIdle /\ HistIdle(0)

NextBatch ==
  \/ \E f \in BatchFlagSets : DumpRowSet(f)
  \/ Exit

SpecBatch == InitBatch /\ [][NextBatch]_vars

(***************************************************************************)
(* The whole tool: every action of the local_replica mode, one invocation  *)
(* after the other on the same storage root.                               *)
(***************************************************************************)
EmptyTablet == [present |-> TRUE, rowsets |-> <<>>]

SmallTablet ==
  [present |-> TRUE,
   rowsets |-> << [id |-> 0, cols |-> <<"good">>, undos |-> <<"empty">>,
                   redos |-> <<"good">>, rows |-> 250] >>]

ToolTablets == {NoTablet, EmptyTablet, SmallTablet}

ToolArgLists == {<<>>, <<PeerA>>, <<PeerNoDelimiter>>}

ToolFlagSets ==
  {NoFlags, [NoFlags EXCEPT !.verbose = TRUE], [NoFlags EXCEPT !.metadata_only = TRUE]}

Init ==
  /\ cmeta_file \in {CMeta0, NoFile}
  /\ backups = NoBackups /\ copy_data = "none"
  /\ tablet \in ToolTablets
  /\ ProcIdle /\ CallIdle /\ HistIdle(0)

Next ==
  \/ PrintReplicaUuids
  \/ \E variadic_args \in ToolArgLists : RewriteRaftConfig_Parse(variadic_args)
  \/ RewriteRaftConfig_FsOpen
  \/ RewriteRaftConfig_CopyFile
  \/ RewriteRaftConfig_CopyFileWrite
  \/ RewriteRaftConfig_Load
  \/ RewriteRaftConfig_Stage
  \/ RewriteRaftConfig_Flush
  \/ RewriteRaftConfig_FlushWrite
  \/ Crash
  \/ \E source \in Sources : CopyFromRemote(source)
  \/ \E f \in ToolFlagSets : ListLocalReplicas(f)
  \/ DumpBlockIdsForLocalReplica
  \/ DumpMeta
  \/ \E f \in ToolFlagSets : DumpRowSet(f)
  \/ DumpWals
  \/ Exit

Spec == Init /\ [][Next]_vars

(***************************************************************************)
(* Vocabulary of the properties.                                           *)
(***************************************************************************)
Contains(seq, x) == \E i \in 1..Len(seq) : seq[i] = x

Last(seq) == seq[Len(seq)]

HasColon(s) == \E k \in 1..Len(s) : s[k] = ":"

FirstColon(s) ==
  CHOOSE k \in 1..Len(s) : s[k] = ":" /\ \A j \in 1..(k - 1) : s[j] # ":"

\* the text before the first ':' and the text after it
IdentifierOf(s) == SubSeq(s, 1, FirstColon(s) - 1)
AddressOf(s) == SubSeq(s, FirstColon(s) + 1, Len(s))

\* no delimiter, unparsable address, or port 0 (also when absent)
Malformed(s) ==
  \/ ~HasColon(s)
  \/ HostPortParseString(AddressOf(s), 0).s # OK
  \/ HostPortParseString(AddressOf(s), 0).hp.port = 0

InRewrite == cmd = "rewrite_raft_config"

\* the primary file has been written to during the running invocation
PrimaryWritten == Contains(steps, "write") \/ cmeta_file # pre_cmeta

CopyErrors == {NotFound, AlreadyPresent, IOError}

(***************************************************************************)
(* C7. ParsePeerString fails with InvalidArgument on a string without ':'; *)
(* otherwise the identifier is the text before the first ':' and the rest  *)
(* is parsed as host and port, a port of 0 (or an absent one) failing with *)
(* InvalidArgument. "abc123:node1:9010" gives abc123, node1, 9010 and      *)
(* "abc123:node1:0" fails. A failure writes neither output.                *)
(***************************************************************************)
C7_ParsePeerString ==
  (cmd = "parse_peer" /\ pc = "done") =>
    /\ ~HasColon(p_str) => status = InvalidArgument
    /\ HasColon(p_str) =>
         LET hp == HostPortParseString(AddressOf(p_str), 0) IN
         /\ (hp.s = OK /\ hp.hp.port = 0) => status = InvalidArgument
         /\ hp.s # OK => status # OK
         /\ (hp.s = OK /\ hp.hp.port # 0) =>
              /\ status = OK
              /\ p_uuid = IdentifierOf(p_str)
              /\ p_hostport = hp.hp
    /\ status # OK => (p_uuid = UnsetUuid /\ p_hostport = UnsetHostPort)
    /\ p_str = ScenarioPeer =>
         /\ status = OK
         /\ p_uuid = <<"a", "b", "c", "1", "2", "3">>
         /\ p_hostport = [host |-> <<"n", "o", "d", "e", "1">>, port |-> 9010]
    /\ p_str = ScenarioPeerZero => status = InvalidArgument

C7_Witness ==
  /\ cmd = "parse_peer" /\ pc = "done" /\ p_str = ScenarioPeer /\ status = OK
  /\ p_hostport.port = 9010

(***************************************************************************)
(* C1. Once the primary consensus-metadata file has been written to, or    *)
(* the rewrite has returned OK, a backup exists that was complete before   *)
(* the first write to the primary and that equals the primary file as it   *)
(* was when the rewrite started; a failure or a crash at any step included.*)
(***************************************************************************)
C1_BackupBeforeWrite ==
  (InRewrite /\ (PrimaryWritten \/ (pc = "done" /\ status = OK))) =>
    \E t \in safe_backups : backups[t] = pre_cmeta /\ pre_backups[t] = NoFile

C1_Witness ==
  /\ InRewrite /\ pc = "done" /\ status = Aborted
  /\ cmeta_file = Torn /\ pre_cmeta = CMeta0
  /\ backups[backup_filename] = CMeta0

(***************************************************************************)
(* C2. When the backup copy fails, also because a file already exists at   *)
(* the backup path (it is never overwritten), the operation ends with that *)
(* error, the primary file is unchanged and neither the load nor the       *)
(* staging nor the write-back is executed.                                 *)
(***************************************************************************)
C2_BackupFailureAborts ==
  /\ (InRewrite /\ Last(steps) = "copy" /\ status \notin {NoStatus, Aborted}) =>
        /\ pc = "done"
        /\ status \in CopyErrors
        /\ cmeta_file = pre_cmeta
  /\ (InRewrite /\ Contains(steps, "copy") /\ pre_backups[backup_filename] # NoFile) =>
        /\ pc = "done"
        /\ status = AlreadyPresent
        /\ backups = pre_backups
        /\ cmeta_file = pre_cmeta
        /\ Last(steps) = "copy"

C2_Witness ==
  /\ InRewrite /\ pc = "done" /\ status = AlreadyPresent
  /\ pre_backups[backup_filename] # NoFile /\ Last(steps) = "copy"

(***************************************************************************)
(* C3. RewriteRaftConfig with no peer argument fails with InvalidArgument  *)
(* and does no file I/O: no backup is created, the primary is unchanged.   *)
(***************************************************************************)
C3_EmptyPeerListRejected ==
  (InRewrite /\ args = <<>>) =>
    /\ pc = "done"
    /\ status = InvalidArgument
    /\ steps = <<"parse">>
    /\ backups = pre_backups
    /\ cmeta_file = pre_cmeta

(***************************************************************************)
(* C4. Whenever an invocation of RewriteRaftConfig has written the primary *)
(* file, the persisted committed configuration has at least one peer.      *)
(***************************************************************************)
C4_NeverZeroPeers ==
  (InRewrite /\ pc = "done" /\ status = OK) =>
    /\ cmeta_file.kind = "cmeta"
    /\ Len(cmeta_file.committed_config.peers) >= 1

(***************************************************************************)
(* C5. A malformed peer argument (no delimiter, unparsable address, port   *)
(* 0), at any position, fails the operation with that error before the    *)
(* storage root is opened and before any file is read or written: no       *)
(* backup is created and the primary is unchanged, even after valid peers. *)
(***************************************************************************)
C5_MalformedPeerFailsFast ==
  (InRewrite /\ \E i \in 1..Len(args) : Malformed(args[i])) =>
    /\ pc = "done"
    /\ status = InvalidArgument
    /\ steps = <<"parse">>
    /\ fs_opts = "closed"
    /\ backups = pre_backups
    /\ cmeta_file = pre_cmeta

C5_Witness ==
  /\ InRewrite /\ pc = "done" /\ status = InvalidArgument
  /\ args = <<PeerA, PeerPortZero>>

ExpectedPeers(as) ==
  [i \in 1..Len(as) |->
     [permanent_uuid |-> IdentifierOf(as[i]),
      member_type |-> VOTER,
      last_known_addr |-> HostPortParseString(AddressOf(as[i]), 0).hp]]

(***************************************************************************)
(* C6. The committed configuration handed to Flush, and persisted by a     *)
(* successful rewrite with arguments p1..pn, has exactly n peers in the    *)
(* order of the arguments, peer i with the identifier and host/port parsed *)
(* from pi and member type VOTER; no previous peer survives and every      *)
(* other field of the previous configuration is carried over.              *)
(***************************************************************************)
C6_StagedConfig ==
  (InRewrite /\ (pc \in {"flush", "flushing"} \/ (pc = "done" /\ status = OK))) =>
    /\ cmeta.committed_config.peers = ExpectedPeers(args)
    /\ cmeta.committed_config.opid_index = pre_cmeta.committed_config.opid_index
    /\ cmeta.current_term = pre_cmeta.current_term
    /\ (pc = "done" /\ status = OK) => cmeta_file = cmeta

C6_Witness ==
  /\ InRewrite /\ pc = "done" /\ status = OK
  /\ args = <<PeerB, PeerA>>
  /\ Len(cmeta_file.committed_config.peers) = 2
  /\ cmeta_file.committed_config.peers[1].permanent_uuid = <<"b">>

(***************************************************************************)
(* Vocabulary of the dump properties.                                      *)
(***************************************************************************)
InDump == cmd = "dump_rowset" /\ pc = "done" /\ fs_opts # "closed"

\* the content of the block an event is about
BlockOf(e) ==
  LET rs == tablet.rowsets[e.rowset] IN
  CASE e.kind = "col" -> rs.cols[e.pos]
    [] e.kind = "undo" -> rs.undos[e.pos]
    [] e.kind = "redo" -> rs.redos[e.pos]

KeyOf(e) == <<e.kind, e.rowset, e.pos>>

\* the blocks DumpRowSetInternal visits, in its order
BlocksToDump(rs, rowset, f) ==
  (IF f.metadata_only THEN <<>> ELSE [i \in 1..Len(rs.cols) |-> <<"col", rowset, i>>]) \o
  [i \in 1..Len(rs.undos) |-> <<"undo", rowset, i>>] \o
  [i \in 1..Len(rs.redos) |-> <<"redo", rowset, i>>]

RECURSIVE AllBlocksToDump(_, _, _)
AllBlocksToDump(rowsets, i, f) ==
  IF i > Len(rowsets) THEN <<>>
  ELSE BlocksToDump(rowsets[i], i, f) \o AllBlocksToDump(rowsets, i + 1, f)

(***************************************************************************)
(* C8 as claimed. When all rowsets are dumped, a failure of one column or  *)
(* delta block is reported and the dump continues with the sibling blocks  *)
(* and the other rowsets: every block is visited.                          *)
(***************************************************************************)
C8_DumpContinuesPastFailure ==
  (InDump /\ tablet.present /\ flags.rowset_index = -1) =>
    \A k \in 1..Len(AllBlocksToDump(tablet.rowsets, 1, flags)) :
      \E i \in 1..Len(out) : KeyOf(out[i]) = AllBlocksToDump(tablet.rowsets, 1, flags)[k]

(***************************************************************************)
(* C8 as amended. A failure while dumping one column or delta block ends   *)
(* the dump at that block with the block's error: the blocks are visited   *)
(* in order up to the first one that fails, no later sibling block and no  *)
(* later rowset is dumped, and the dump visits every block only when none  *)
(* fails.                                                                  *)
(***************************************************************************)
C8_DumpStopsAtFirstFailure ==
  InDump =>
    /\ \A i \in 1..Len(out) :
         out[i].s # OK => (i = Len(out) /\ status = out[i].s)
    /\ (tablet.present /\ flags.rowset_index = -1) =>
         LET all == AllBlocksToDump(tablet.rowsets, 1, flags) IN
         /\ Len(out) <= Len(all)
         /\ \A i \in 1..Len(out) : KeyOf(out[i]) = all[i]
         /\ Len(out) < Len(all) => (status # OK /\ Last(out).s = status)
         /\ Len(out) = Len(all) => (status = OK \/ Last(out).s = status)

C8_Witness ==
  /\ InDump /\ flags.rowset_index = -1
  /\ Len(tablet.rowsets) = 2
  /\ Len(out) = 1 /\ out[1].s # OK /\ out[1].rowset = 1
  /\ Len(AllBlocksToDump(tablet.rowsets, 1, flags)) = 3
  /\ status = out[1].s

\* the delta block DumpRowSetInternal visits after the one of event e, if any
NextDelta(e) ==
  LET rs == tablet.rowsets[e.rowset] IN
  IF e.kind = "undo" /\ e.pos < Len(rs.undos) THEN <<"undo", e.rowset, e.pos + 1>>
  ELSE IF e.kind = "undo" /\ Len(rs.redos) > 0 THEN <<"redo", e.rowset, 1>>
  ELSE IF e.kind = "redo" /\ e.pos < Len(rs.redos) THEN <<"redo", e.rowset, e.pos + 1>>
  ELSE <<>>

(***************************************************************************)
(* C10. A delta block whose iterator creation reports NotFound is the      *)
(* non-fatal Empty outcome: its dump returns OK without iterating a batch  *)
(* and the rowset dump goes on to the remaining UNDO and REDO blocks; any  *)
(* other iterator-creation error is returned as a failure.                 *)
(***************************************************************************)
C10_EmptyDeltaBlock ==
  (InDump /\ ~flags.metadata_only) =>
    \A i \in 1..Len(out) :
      out[i].kind \in {"undo", "redo"} =>
        /\ BlockOf(out[i]) = "empty" =>
             /\ out[i].s = OK /\ out[i].empty /\ out[i].batches = <<>>
             /\ NextDelta(out[i]) # <<>> =>
                  (i < Len(out) /\ KeyOf(out[i + 1]) = NextDelta(out[i]))
        /\ BlockOf(out[i]) = "bad_iter" =>
             /\ out[i].s \notin {OK, NotFound}
             /\ status = out[i].s
             /\ i = Len(out)
        /\ BlockOf(out[i]) = "good" =>
             (out[i].s = OK /\ ~out[i].empty /\ out[i].batches # <<>>)

C10_Witness ==
  /\ InDump /\ ~flags.metadata_only /\ status = OK
  /\ \E i \in 1..(Len(out) - 1) :
       /\ out[i].kind = "undo" /\ out[i].empty /\ out[i].batches = <<>>
       /\ out[i + 1].kind = "redo" /\ out[i + 1].rowset = out[i].rowset
       /\ out[i + 1].batches # <<>>

OtherActions ==
  {"print_replica_uuids", "copy_from_remote", "list", "dump_block_ids",
   "dump_meta", "dump_rowset", "dump_wals"}

ReadOnlyActions == OtherActions \ {"copy_from_remote"}

(***************************************************************************)
(* C9 as claimed. Only the commit path of rewrite_raft_config changes      *)
(* persisted state: every other action opens the storage root read-only    *)
(* and leaves the persisted state as it was.                               *)
(***************************************************************************)
C9_OnlyRewriteMutates ==
  [][(pc = "idle" /\ cmd' \in OtherActions) =>
       (disk' = disk /\ fs_opts' \in {"closed", "read_only"})]_vars

(***************************************************************************)
(* C9 as amended. Every action other than rewrite_raft_config and          *)
(* copy_from_remote opens the storage root read-only and leaves the        *)
(* persisted state as it was; copy_from_remote opens it for writing.       *)
(***************************************************************************)
C9_ReadOnlyActions ==
  [][/\ (pc = "idle" /\ cmd' \in ReadOnlyActions) =>
          (disk' = disk /\ fs_opts' \in {"closed", "read_only"})
     /\ (pc = "idle" /\ cmd' = "copy_from_remote") =>
          fs_opts' \in {"closed", "read_write"}]_vars

C9_Witness ==
  /\ cmd = "dump_rowset" /\ pc = "done" /\ fs_opts = "read_only" /\ status = OK
  /\ out # <<>>
  /\ runs > 0

\* the positions in the tablet of the rowsets whose id is FLAGS_rowset_index
RowSetsWithIndex ==
  {i \in 1..Len(tablet.rowsets) : tablet.rowsets[i].id = flags.rowset_index}

(***************************************************************************)
(* C11. With a rowset index other than -1, DumpRowSet on a tablet that     *)
(* has rowsets dumps at most one rowset, one whose id is the index: every  *)
(* block it visits belongs to that rowset, and the blocks of that rowset   *)
(* are visited in order up to the first failure. When no rowset has that   *)
(* id the dump fails with InvalidArgument and has visited and opened no    *)
(* block at all.                                                           *)
(***************************************************************************)
C11_RowSetIndex ==
  (InDump /\ tablet.present /\ tablet.rowsets # <<>> /\ flags.rowset_index # -1) =>
    /\ RowSetsWithIndex = {} => (status = InvalidArgument /\ out = <<>>)
    /\ \A r \in RowSetsWithIndex :
         LET blocks == BlocksToDump(tablet.rowsets[r], r, flags) IN
         /\ \A i \in 1..Len(out) : out[i].rowset = r
         /\ Len(out) <= Len(blocks)
         /\ \A i \in 1..Len(out) : KeyOf(out[i]) = blocks[i]
         /\ status = OK => Len(out) = Len(blocks)

\* the index names a position of the tablet but no rowset id
C11_Witness ==
  /\ InDump /\ tablet.present /\ Len(tablet.rowsets) = 2
  /\ flags.rowset_index = 0 /\ RowSetsWithIndex = {}
  /\ status = InvalidArgument /\ out = <<>>

\* the steps of rewrite_raft_config in the order of the code
RewriteOrder == <<"parse", "open_fs", "copy", "load", "stage", "flush", "write">>

\* staging has just completed
Staged == InRewrite /\ pc = "flush"

(***************************************************************************)
(* C12 as claimed. RewriteRaftConfig loads the configuration and stages    *)
(* the new one before any file is written: at the moment staging completes *)
(* no file, the backup included, has been created or modified.             *)
(***************************************************************************)
C12_NoFileWrittenWhenStaged ==
  Staged => (cmeta_file = pre_cmeta /\ backups = pre_backups)

(***************************************************************************)
(* C12 as amended. RewriteRaftConfig follows the order Backed up -> Loaded *)
(* -> Staged -> Committed: the backup copy is made before the              *)
(* configuration is loaded, the load and the staging come before the write *)
(* of the primary file. At the moment staging completes the primary file   *)
(* is as it was, the new configuration is in memory only, and the one file *)
(* created is the backup, a complete copy of the primary at a path that    *)
(* held no file. A replica without a metadata file fails at the backup     *)
(* copy and never reaches the load.                                        *)
(***************************************************************************)
C12_BackupLoadStageCommit ==
  InRewrite =>
    /\ Len(steps) <= Len(RewriteOrder)
    /\ \A i \in 1..Len(steps) : steps[i] = RewriteOrder[i]
    /\ (pc \in {"load", "stage", "flush"}) =>
         /\ cmeta_file = pre_cmeta
         /\ pre_backups[backup_filename] = NoFile
         /\ backups = [pre_backups EXCEPT ![backup_filename] = pre_cmeta]
    /\ Staged =>
         /\ steps = <<"parse", "open_fs", "copy", "load", "stage">>
         /\ cmeta.committed_config = NewConfig(pre_cmeta.committed_config, peers)
         /\ cmeta.current_term = pre_cmeta.current_term
    /\ pre_cmeta = NoFile =>
         /\ ~Contains(steps, "load")
         /\ cmeta_file = NoFile /\ backups = pre_backups
         /\ (pc = "done" /\ Last(steps) = "copy" /\ status # Aborted) => status \in CopyErrors

C12_Witness ==
  /\ Staged /\ pre_cmeta = CMeta0 /\ cmeta_file = CMeta0
  /\ pre_backups[backup_filename] = NoFile /\ backups[backup_filename] = CMeta0
  /\ cmeta.committed_config # CMeta0.committed_config

(***************************************************************************)
(* Vocabulary of the batch loop properties.                                *)
(***************************************************************************)
\* the events of the delta blocks whose batch loop has run
LoopEvents ==
  {i \in 1..Len(out) :
     out[i].kind \in {"undo", "redo"} /\ out[i].s = OK /\ BlockOf(out[i]) = "good"}

\* the rows of the base data of the rowset of an event
RowsOf(e) == tablet.rowsets[e.rowset].rows

\* the rows processed by the first k batches
RECURSIVE Processed(_, _)
Processed(batches, k) ==
  IF k = 0 THEN 0 ELSE Processed(batches, k - 1) + batches[k].n

Sizes(batches) == [k \in 1..Len(batches) |-> batches[k].n]

(***************************************************************************)
(* C13. In the batch loop of a delta dump with a row limit L > 0, every    *)
(* batch asks for min(L - rows processed, kRowsPerBlock) rows, the loop    *)
(* ends when the rows processed reach L or the base iterator has no rows   *)
(* left, whichever comes first, and the rows processed never exceed L: 250 *)
(* rows with L = 120 are two batches of 100 and 20 rows. With L <= 0 every *)
(* batch asks for kRowsPerBlock rows until the base iterator is exhausted. *)
(***************************************************************************)
C13_RowLimit ==
  (InDump /\ ~flags.metadata_only) =>
    \A i \in LoopEvents :
      LET b == out[i].batches
          L == flags.nrows
          R == RowsOf(out[i]) IN
      /\ \A k \in 1..Len(b) :
           /\ b[k].nrows = Processed(b, k - 1)
           /\ b[k].n = Min(b[k].want, R - b[k].nrows)
           /\ b[k].n > 0
           /\ L > 0 => /\ b[k].nrows < L
                       /\ b[k].want = Min(L - b[k].nrows, kRowsPerBlock)
                       /\ Processed(b, k) <= L
           /\ L <= 0 => b[k].want = kRowsPerBlock
      /\ L > 0 => Processed(b, Len(b)) = Min(L, R)
      /\ L <= 0 => Processed(b, Len(b)) = R
      /\ (R = 250 /\ L = 120) => Sizes(b) = <<100, 20>>

C13_Witness ==
  /\ InDump /\ status = OK /\ flags.nrows = 120
  /\ \E i \in LoopEvents :
       /\ RowsOf(out[i]) = 250
       /\ Sizes(out[i].batches) = <<100, 20>>
       /\ out[i].batches[2].want = 20

(***************************************************************************)
(* C14. The base iterator and the delta iterator of a delta dump advance   *)
(* in lock-step: both start at ordinal 0, in every batch the delta         *)
(* iterator is prepared for the row count n the base iterator settled on,  *)
(* so before every batch both stand at the rows processed so far, and the  *)
(* deltas collected for the batch are those of the rows offset <= r <      *)
(* offset + n. The arena is reset once before every batch, so it holds the *)
(* deltas of one batch only.                                               *)
(***************************************************************************)
C14_LockStep ==
  (InDump /\ ~flags.metadata_only) =>
    \A i \in LoopEvents :
      LET b == out[i].batches IN
      \A k \in 1..Len(b) :
        /\ k = 1 => (b[k].base_idx = 0 /\ b[k].delta_idx = 0)
        /\ b[k].delta_n = b[k].n
        /\ b[k].base_idx = Processed(b, k - 1)
        /\ b[k].delta_idx = b[k].base_idx
        /\ b[k].collected =
             {r \in DeltaRows : b[k].base_idx <= r /\ r < b[k].base_idx + b[k].n}
        /\ b[k].arena.resets = k
        /\ b[k].arena.held = b[k].collected

\* the last batch is one the base iterator shrank: 50 rows of the 100 asked
\* for, from row 200 on
C14_Witness ==
  /\ InDump /\ status = OK
  /\ \E i \in LoopEvents :
       LET b == out[i].batches IN
       /\ Len(b) = 3
       /\ b[3].want = kRowsPerBlock /\ b[3].n < b[3].want /\ b[3].delta_n = b[3].n
       /\ b[3].base_idx = 2 * kRowsPerBlock /\ b[3].delta_idx = b[3].base_idx
       /\ b[3].collected # {} /\ b[3].arena.held = b[3].collected

====
